---- MODULE Spec2Model ----
(***************************************************************************)
(* Model of create-sample-image.py: create_handwritten_style_image reads   *)
(* sample-advisory-minutes.txt, wraps its lines to 70 columns, draws the   *)
(* wrapped sub-lines on an 800x1200 canvas and saves the canvas as a PNG.  *)
(*                                                                         *)
(* A Python str is held run-length encoded: a sequence of runs             *)
(* [ch |-> c, n |-> k] standing for k copies of the character c, with      *)
(* neighbouring runs of different characters.  <<>> is the empty string.   *)
(***************************************************************************)
EXTENDS Integers, Sequences, FiniteSets, TLC

\* ------------------------------------------------------------------ bounds
\* Largest number of lines of an input file.
MaxLines == 3
\* hash() values range over -HashBound .. HashBound.
HashBound == 4
\* Largest number of lines of an input file in the runs checked for
\* termination.
MaxFairLines == 2

\* ------------------------------------------------------- program constants
width == 800
height == 1200
background_color == <<255, 255, 255>>
line_height == 20
wrap_width == 70
tabsize == 8
y_start == 30
bottom_margin == 30
x_base == 30
jitter == 5
output_path == "sample-handwritten-advisory-minutes.png"
\* The lines the function prints (the two success lines without their
\* leading emoji).
NotFoundMessage == "Error: sample-advisory-minutes.txt not found"
CreatedMessage == "Sample handwritten-style image created: sample-handwritten-advisory-minutes.png"
UploadMessage == "You can now upload this image to test the OCR and AI analysis"

\* ------------------------------------------------------------- characters
NL == "\n"
TAB == "\t"
SP == " "
\* The whitespace the alphabet of the model contains; str.strip() and
\* textwrap treat each of them as whitespace.
Whitespace == {SP, TAB, NL}

Run(c, k) == [ch |-> c, n |-> k]

\* ---------------------------------------------------------- str operations
RECURSIVE StrLen(_)
StrLen(s) == IF s = <<>> THEN 0 ELSE Head(s).n + StrLen(Tail(s))

\* s + t
Concat(s, t) ==
    IF s = <<>> THEN t
    ELSE IF t = <<>> THEN s
    ELSE IF s[Len(s)].ch = t[1].ch
         THEN SubSeq(s, 1, Len(s) - 1)
              \o <<Run(t[1].ch, s[Len(s)].n + t[1].n)>>
              \o Tail(t)
         ELSE s \o t

\* s[:k]
RECURSIVE StrTake(_, _)
StrTake(s, k) ==
    IF k <= 0 \/ s = <<>> THEN <<>>
    ELSE IF Head(s).n <= k
         THEN <<Head(s)>> \o StrTake(Tail(s), k - Head(s).n)
         ELSE <<Run(Head(s).ch, k)>>

\* s[k:]
RECURSIVE StrDrop(_, _)
StrDrop(s, k) ==
    IF k <= 0 \/ s = <<>> THEN s
    ELSE IF Head(s).n <= k
         THEN StrDrop(Tail(s), k - Head(s).n)
         ELSE <<Run(Head(s).ch, Head(s).n - k)>> \o Tail(s)

RECURSIVE LStrip(_)
LStrip(s) ==
    IF s = <<>> THEN <<>>
    ELSE IF Head(s).ch \in Whitespace THEN LStrip(Tail(s)) ELSE s

RECURSIVE RStrip(_)
RStrip(s) ==
    IF s = <<>> THEN <<>>
    ELSE IF s[Len(s)].ch \in Whitespace
         THEN RStrip(SubSeq(s, 1, Len(s) - 1)) ELSE s

\* s.strip()
Strip(s) == RStrip(LStrip(s))

\* text.split('\n'): cur is the line being collected.
RECURSIVE SplitFrom(_, _)
SplitFrom(s, cur) ==
    IF s = <<>> THEN <<cur>>
    ELSE IF Head(s).ch = NL
         THEN <<cur>> \o [i \in 1..(Head(s).n - 1) |-> <<>>]
              \o SplitFrom(Tail(s), <<>>)
         ELSE SplitFrom(Tail(s), cur \o <<Head(s)>>)

Split(s) == SplitFrom(s, <<>>)

\* '\n'.join(ls): the content of a file whose lines are ls.
RECURSIVE Join(_)
Join(ls) ==
    IF Len(ls) = 1 THEN ls[1]
    ELSE Concat(Concat(ls[1], <<Run(NL, 1)>>), Join(Tail(ls)))

\* ------------------------------------------------- textwrap.wrap(line, 70)
\* str.expandtabs(8), from column col: a tab fills up to the next multiple
\* of tabsize; the column restarts after a newline.
RECURSIVE ExpandTabsFrom(_, _)
ExpandTabsFrom(s, col) ==
    IF s = <<>> THEN <<>>
    ELSE LET r == Head(s) IN
         IF r.ch = TAB
         THEN LET k == (tabsize - (col % tabsize)) + tabsize * (r.n - 1)
              IN Concat(<<Run(SP, k)>>, ExpandTabsFrom(Tail(s), col + k))
         ELSE IF r.ch = NL
              THEN Concat(<<r>>, ExpandTabsFrom(Tail(s), 0))
              ELSE Concat(<<r>>, ExpandTabsFrom(Tail(s), col + r.n))

ExpandTabs(s) == ExpandTabsFrom(s, 0)

\* replace_whitespace: every whitespace character becomes one space.
RECURSIVE ReplaceWhitespace(_)
ReplaceWhitespace(s) ==
    IF s = <<>> THEN <<>>
    ELSE Concat(<<Run(IF Head(s).ch \in Whitespace THEN SP ELSE Head(s).ch,
                      Head(s).n)>>,
                ReplaceWhitespace(Tail(s)))

\* TextWrapper._munge_whitespace
MungeWhitespace(s) == ReplaceWhitespace(ExpandTabs(s))

\* TextWrapper._split: maximal runs of spaces and maximal runs of
\* non-spaces, in order (the alphabet has no hyphen or dash to break at).
RECURSIVE ChunksFrom(_, _)
ChunksFrom(s, cur) ==
    IF s = <<>> THEN (IF cur = <<>> THEN <<>> ELSE <<cur>>)
    ELSE IF Head(s).ch = SP
         THEN (IF cur = <<>> THEN <<>> ELSE <<cur>>)
              \o <<(<<Head(s)>>)>> \o ChunksFrom(Tail(s), <<>>)
         ELSE ChunksFrom(Tail(s), cur \o <<Head(s)>>)

SplitChunks(s) == ChunksFrom(s, <<>>)

\* The test `cur_len + l <= width` of the inner loop of _wrap_chunks.
Fits(cur_len, l) == cur_len + l <= wrap_width

\* The inner loop of _wrap_chunks: chunks move to cur_line while they fit.
RECURSIVE Fill(_, _, _)
Fill(chunks, cur_line, cur_len) ==
    IF chunks # <<>> /\ Fits(cur_len, StrLen(Head(chunks)))
    THEN Fill(Tail(chunks), Append(cur_line, Head(chunks)),
              cur_len + StrLen(Head(chunks)))
    ELSE [chunks |-> chunks, cur_line |-> cur_line, cur_len |-> cur_len]

\* TextWrapper._handle_long_word with break_long_words: the first chunk is
\* cut at the space left on the line.
HandleLongWord(st) ==
    LET space_left == IF wrap_width < 1 THEN 1 ELSE wrap_width - st.cur_len
        chunk == Head(st.chunks)
    IN [chunks |-> <<StrDrop(chunk, space_left)>> \o Tail(st.chunks),
        cur_line |-> Append(st.cur_line, StrTake(chunk, space_left)),
        cur_len |-> st.cur_len + space_left]

\* drop_whitespace at the end of a line: a last chunk that strips to ''
\* is removed.
DropTrailing(cur_line) ==
    IF cur_line # <<>> /\ Strip(cur_line[Len(cur_line)]) = <<>>
    THEN SubSeq(cur_line, 1, Len(cur_line) - 1)
    ELSE cur_line

\* ''.join(cur_line)
RECURSIVE JoinChunks(_)
JoinChunks(cs) ==
    IF cs = <<>> THEN <<>> ELSE Concat(Head(cs), JoinChunks(Tail(cs)))

\* One pass of the outer loop of TextWrapper._wrap_chunks: a leading
\* whitespace chunk is dropped (except on the first line), chunks fill
\* the line, a chunk longer than the width is broken, trailing whitespace
\* is dropped, and a line that is not empty is appended to ls.
WrapOneLine(chunks, ls) ==
    LET c1 == IF Strip(Head(chunks)) = <<>> /\ ls # <<>>
              THEN Tail(chunks) ELSE chunks
        f == Fill(c1, <<>>, 0)
        g == IF f.chunks # <<>> /\ StrLen(Head(f.chunks)) > wrap_width
             THEN HandleLongWord(f) ELSE f
        cl == DropTrailing(g.cur_line)
    IN [chunks |-> g.chunks,
        ls |-> IF cl # <<>> THEN Append(ls, JoinChunks(cl)) ELSE ls]

\* TextWrapper._wrap_chunks: ls holds the lines finished so far.
RECURSIVE WrapChunks(_, _)
WrapChunks(chunks, ls) ==
    IF chunks = <<>> THEN ls
    ELSE LET st == WrapOneLine(chunks, ls)
         IN WrapChunks(st.chunks, st.ls)

\* TextWrapper.wrap: munge, split into chunks, wrap the chunks.
Wrap(line) == WrapChunks(SplitChunks(MungeWhitespace(line)), <<>>)

\* ------------------------------------------------------------------ inputs
\* The lines an input file is made of: empty, spaces only, "A", "B", a
\* 67-character line whose tab expands it to 73 columns, a 62-character
\* line whose tab expands it to 69 columns, and one 4200-character word
\* (60 sub-lines, more than the 57 the canvas has room for).
LineSet ==
    { <<>>,
      <<Run(SP, 3)>>,
      <<Run("A", 1)>>,
      <<Run("B", 1)>>,
      <<Run("A", 33), Run(TAB, 1), Run("B", 33)>>,
      <<Run("A", 32), Run(TAB, 1), Run("B", 29)>>,
      <<Run("A", 4200)>> }

\* Wrap, tabulated once for the lines of LineSet.
WrapOfLineSet == [l \in LineSet |-> Wrap(l)]

\* `textwrap.wrap(line, width=70)`: Wrap(line), read from the table when
\* the line is one of LineSet.
TextwrapWrap(line) ==
    IF line \in LineSet THEN WrapOfLineSet[line] ELSE Wrap(line)

\* The contents an input file of at most max lines can have: lines of LineSet
\* joined by newlines (the empty file is the one line <<>>).
FileTexts(max) ==
    { Join(ls) : ls \in UNION { [1..n -> LineSet] : n \in 1..max } }

\* The values hash(wrapped_line) can take; the string hash is seeded per
\* process, so every value is possible for every text.
HashValues == (0 - HashBound)..HashBound

Fonts == {"Arial.ttf", "default"}

\* ------------------------------------------------------------------- state
NoImage == [size |-> <<0, 0>>, color |-> <<0, 0, 0>>, draws |-> <<>>]

VARIABLES
    file_exists,    \* sample-advisory-minutes.txt is present
    file_text,      \* its content
    saved,          \* the images img.save wrote to output_path, in order
    pc,             \* position in create_handwritten_style_image
    text,           \* local: the content read
    img,            \* local: the canvas; img.draws are the draw.text calls
    font,           \* local: the font in use
    lines,          \* local: text.split('\n')
    y_position,     \* local: the rendering cursor
    idx,            \* position of `for line in lines` (1-based)
    wrapped_lines,  \* local: textwrap.wrap(line, width=70)
    widx,           \* position of `for wrapped_line in wrapped_lines`
    x_offset,       \* local: the horizontal offset of the last draw
    passed,         \* history: sub-lines the inner loop has visited
    stdout,         \* the lines printed
    ret             \* the value returned: "unset" while running

vars == <<file_exists, file_text, saved, pc, text, img, font, lines,
          y_position, idx, wrapped_lines, widx, x_offset, passed, stdout,
          ret>>

\* Locals hold a placeholder (0, <<>>, "none") until the code binds them.
InitWith(max) ==
    /\ file_exists \in BOOLEAN
    /\ file_text \in (IF file_exists THEN FileTexts(max) ELSE {<<>>})
    /\ saved = <<>>
    /\ pc = "open"
    /\ text = <<>>
    /\ img = NoImage
    /\ font = "none"
    /\ lines = <<>>
    /\ y_position = 0
    /\ idx = 0
    /\ wrapped_lines = <<>>
    /\ widx = 0
    /\ x_offset = 0
    /\ passed = 0
    /\ stdout = <<>>
    /\ ret = "unset"

Init == InitWith(MaxLines)

\* ------------------------------------------------------ pieces of the code
\* Variant: the except branch lacks its `return` and falls through.
NotFoundFallThrough == "create_image"

\* `return` of the except branch: the function is over.
NotFoundNextPc == "done"

\* Variant: `if line:`, a line of spaces counts as text.
IsNonEmpty(line) == line # <<>>

\* `if line.strip():`
IsNonBlank(line) == Strip(line) # <<>>

\* Variant: `<=` for `<`.
InDrawableRegionInclusive(y) == y <= height - bottom_margin

\* Variant: the bottom margin is forgotten.
InDrawableRegionNoMargin(y) == y < height

\* `if y_position < height - 30:`
InDrawableRegion(y) == y < height - bottom_margin

\* Variant: a remainder with the sign of the dividend, as in C.
TruncMod(a, n) == IF a >= 0 THEN a % n ELSE 0 - ((0 - a) % n)

\* Python's %: the result has the sign of the divisor.
PyMod(a, n) == a % n

\* `x_offset = 30 + (hash(wrapped_line) % 5)`, h the hash value.
XOffset(h) == x_base + PyMod(h, jitter)

\* Variant: the cursor is not moved after a draw.
DrawAdvanceNone(y) == y

\* `y_position += line_height`
DrawAdvance(y) == y + line_height

\* Variant: a blank line advances a full line.
BlankAdvanceFullLine(y) == y + line_height

\* Variant: a blank line does not move the cursor.
BlankAdvanceNone(y) == y

\* Variant: `=` for `+=`.
BlankAdvanceReset(y) == line_height \div 2

\* `y_position += line_height // 2`
BlankAdvance(y) == y + (line_height \div 2)

\* Variant: the function ends without its return statement.
ReturnNothing == "None"

\* `return output_path`
ReturnValue == output_path

\* ----------------------------------------------------------------- actions
\* open() raises FileNotFoundError: print the error and return None.
OpenNotFound ==
    /\ pc = "open"
    /\ ~file_exists
    /\ stdout' = Append(stdout, NotFoundMessage)
    /\ ret' = "None"
    /\ pc' = NotFoundNextPc
    /\ UNCHANGED <<passed, file_exists, file_text, saved, text, img, font, lines,
                   y_position, idx, wrapped_lines, widx, x_offset>>

\* text = f.read()
OpenRead ==
    /\ pc = "open"
    /\ file_exists
    /\ text' = file_text
    /\ pc' = "create_image"
    /\ UNCHANGED <<passed, file_exists, file_text, saved, img, font, lines,
                   y_position, idx, wrapped_lines, widx, x_offset, stdout,
                   ret>>

\* img = Image.new('RGB', (width, height), background_color)
CreateImage ==
    /\ pc = "create_image"
    /\ img' = [size |-> <<width, height>>, color |-> background_color,
               draws |-> <<>>]
    /\ pc' = "load_font"
    /\ UNCHANGED <<passed, file_exists, file_text, saved, text, font, lines,
                   y_position, idx, wrapped_lines, widx, x_offset, stdout,
                   ret>>

\* font = ImageFont.truetype("Arial.ttf", 14) succeeds.
LoadTrueType ==
    /\ pc = "load_font"
    /\ font' = "Arial.ttf"
    /\ pc' = "split"
    /\ UNCHANGED <<passed, file_exists, file_text, saved, text, img, lines,
                   y_position, idx, wrapped_lines, widx, x_offset, stdout,
                   ret>>

\* truetype raises: font = ImageFont.load_default()
LoadDefaultFont ==
    /\ pc = "load_font"
    /\ font' = "default"
    /\ pc' = "split"
    /\ UNCHANGED <<passed, file_exists, file_text, saved, text, img, lines,
                   y_position, idx, wrapped_lines, widx, x_offset, stdout,
                   ret>>

\* lines = text.split('\n'); y_position = 30; the line loop starts.
SplitLines ==
    /\ pc = "split"
    /\ lines' = Split(text)
    /\ y_position' = y_start
    /\ idx' = 1
    /\ pc' = "for_line"
    /\ UNCHANGED <<passed, file_exists, file_text, saved, text, img, font,
                   wrapped_lines, widx, x_offset, stdout, ret>>

\* A line with something left after strip(): wrap it.
WrapLine ==
    /\ pc = "for_line"
    /\ idx <= Len(lines)
    /\ IsNonBlank(lines[idx])
    /\ wrapped_lines' = TextwrapWrap(lines[idx])
    /\ widx' = 1
    /\ pc' = "for_wrapped"
    /\ UNCHANGED <<passed, file_exists, file_text, saved, text, img, font, lines,
                   y_position, idx, x_offset, stdout, ret>>

\* A blank line: the else branch moves the cursor by half a line.
BlankLine ==
    /\ pc = "for_line"
    /\ idx <= Len(lines)
    /\ ~IsNonBlank(lines[idx])
    /\ y_position' = BlankAdvance(y_position)
    /\ idx' = idx + 1
    /\ UNCHANGED <<passed, file_exists, file_text, saved, pc, text, img, font,
                   lines, wrapped_lines, widx, x_offset, stdout, ret>>

\* A sub-line inside the drawable region: draw.text and advance.
DrawSubLine ==
    /\ pc = "for_wrapped"
    /\ widx <= Len(wrapped_lines)
    /\ InDrawableRegion(y_position)
    /\ \E h \in HashValues : x_offset' = XOffset(h)
    /\ img' = [img EXCEPT !.draws =
                 Append(@, [text |-> wrapped_lines[widx], y |-> y_position])]
    /\ y_position' = DrawAdvance(y_position)
    /\ widx' = widx + 1
    /\ passed' = passed + 1
    /\ UNCHANGED <<file_exists, file_text, saved, pc, text, font, lines,
                   idx, wrapped_lines, stdout, ret>>

\* A sub-line at or below the bottom margin: nothing happens.
SkipSubLine ==
    /\ pc = "for_wrapped"
    /\ widx <= Len(wrapped_lines)
    /\ ~InDrawableRegion(y_position)
    /\ widx' = widx + 1
    /\ passed' = passed + 1
    /\ UNCHANGED <<file_exists, file_text, saved, pc, text, img, font,
                   lines, y_position, idx, wrapped_lines, x_offset, stdout,
                   ret>>

\* The inner loop is exhausted: on to the next line.
EndWrapped ==
    /\ pc = "for_wrapped"
    /\ widx > Len(wrapped_lines)
    /\ idx' = idx + 1
    /\ pc' = "for_line"
    /\ UNCHANGED <<passed, file_exists, file_text, saved, text, img, font, lines,
                   y_position, wrapped_lines, widx, x_offset, stdout, ret>>

\* The line loop is exhausted: img.save(output_path), the two prints and
\* `return output_path`.
Save ==
    /\ pc = "for_line"
    /\ idx > Len(lines)
    /\ saved' = Append(saved, img)
    /\ stdout' = stdout \o <<CreatedMessage, UploadMessage>>
    /\ ret' = ReturnValue
    /\ pc' = "done"
    /\ UNCHANGED <<passed, file_exists, file_text, text, img, font, lines,
                   y_position, idx, wrapped_lines, widx, x_offset>>

Next ==
    \/ OpenNotFound
    \/ OpenRead
    \/ CreateImage
    \/ LoadTrueType
    \/ LoadDefaultFont
    \/ SplitLines
    \/ WrapLine
    \/ BlankLine
    \/ DrawSubLine
    \/ SkipSubLine
    \/ EndWrapped
    \/ Save

Spec == Init /\ [][Next]_vars

\* The interpreter runs the function to its end: no step waits.
FairInit == InitWith(MaxFairLines)

FairSpec == FairInit /\ [][Next]_vars /\ WF_vars(Next)

TypeOK ==
    /\ pc \in {"open", "create_image", "load_font", "split", "for_line",
               "for_wrapped", "done"}
    /\ ret \in {"unset", "None", output_path}
    /\ font \in Fonts \cup {"none"}
    /\ y_position \in Nat
    /\ Len(saved) <= 1

\* ------------------------------------------------- vocabulary of the claims
\* The first cursor position at which nothing is drawn any more.
DrawLimit == height - bottom_margin

\* A line that is empty once its whitespace is trimmed.
AllWhitespace(line) == \A i \in 1..Len(line) : line[i].ch \in Whitespace

\* The wrapped sub-lines of the lines ls, in input order.
RECURSIVE AllWrapped(_)
AllWrapped(ls) ==
    IF ls = <<>> THEN <<>>
    ELSE (IF AllWhitespace(Head(ls)) THEN <<>> ELSE TextwrapWrap(Head(ls)))
         \o AllWrapped(Tail(ls))

Drawn == img.draws

InLoop == pc \in {"for_line", "for_wrapped"}

\* The file "A\n\nB".
TextABlankB == <<Run("A", 1), Run(NL, 2), Run("B", 1)>>

\* ------------------------------------------------------------------ claims
\* C1: with the input file missing, the call prints exactly one error
\* line, returns None, and never creates a canvas, draws or saves.
C1_MissingInput ==
    ~file_exists =>
        /\ img = NoImage
        /\ saved = <<>>
        /\ pc \in {"open", "done"}
        /\ (pc = "open" => stdout = <<>> /\ ret = "unset")
        /\ (pc = "done" => stdout = <<NotFoundMessage>> /\ ret = "None")

C1_Witness == ~file_exists /\ pc = "done" /\ Len(stdout) = 1

\* C3: once the cursor is at or beyond height - 30, it stays there and no
\* step draws again, whatever lines follow.
C3_NoDrawAfterLimit ==
    [][y_position >= DrawLimit =>
          /\ y_position' >= DrawLimit
          /\ Drawn' = Drawn]_vars

\* A short line was wrapped and passed over after the region was full.
C3_Witness ==
    /\ pc = "for_wrapped"
    /\ y_position >= DrawLimit
    /\ idx >= 2
    /\ Len(wrapped_lines) = 1
    /\ widx = 2

\* C4: every draw is at a y with 30 <= y < height - 30.
C4_DrawsInsideRegion ==
    \A i \in 1..Len(Drawn) : Drawn[i].y >= 30 /\ Drawn[i].y < 1170

\* A sub-line was drawn at the last position the region allows.
C4_Witness == \E i \in 1..Len(Drawn) : Drawn[i].y = 1150

\* C5: a blank line moves the cursor by exactly 10 and draws nothing, in
\* every state, also at or beyond height - 30.
C5_BlankAdvances ==
    [][(pc = "for_line" /\ idx <= Len(lines) /\ AllWhitespace(lines[idx])) =>
          /\ y_position' = y_position + 10
          /\ Drawn' = Drawn
          /\ idx' = idx + 1]_vars

\* A blank line has just been processed from a cursor at or beyond the
\* limit.
C5_Witness ==
    /\ pc = "for_line"
    /\ idx >= 2
    /\ AllWhitespace(lines[idx - 1])
    /\ lines[idx - 1] # <<>>
    /\ y_position - 10 >= DrawLimit

\* C6 as stated: every line shorter than 70 characters that reaches the
\* wrap step yields exactly one sub-line.
C6_Original ==
    (pc = "for_wrapped" /\ StrLen(lines[idx]) < 70) =>
        Len(wrapped_lines) = 1

\* C6, amended: a non-blank line that is shorter than 70 characters once
\* its tabs are expanded to 8-column stops yields exactly one sub-line,
\* and that sub-line is drawn if the cursor is below height - 30.
C6_ShortLineOneSubLine ==
    /\ [](pc = "for_wrapped" /\ StrLen(ExpandTabs(lines[idx])) < 70 =>
            Len(wrapped_lines) = 1)
    /\ [][(/\ pc = "for_wrapped"
           /\ StrLen(ExpandTabs(lines[idx])) < 70
           /\ widx = 1
           /\ widx <= Len(wrapped_lines)
           /\ y_position < DrawLimit) =>
              Drawn' = Append(Drawn, [text |-> wrapped_lines[1],
                                      y |-> y_position])]_vars

\* The one sub-line of a short line with a tab has been drawn.
C6_Witness ==
    /\ pc = "for_wrapped"
    /\ \E i \in 1..Len(lines[idx]) : lines[idx][i].ch = TAB
    /\ StrLen(ExpandTabs(lines[idx])) = 69
    /\ widx = 2
    /\ Len(Drawn) > 0
    /\ Drawn[Len(Drawn)].text = wrapped_lines[1]

\* C7: the horizontal offset of every draw is in 30 .. 34.
C7_OffsetInRange ==
    [][Drawn' # Drawn => x_offset' \in 30..34]_vars

C7_Witness == Len(Drawn) > 0 /\ x_offset = 34

\* C8 as stated: for the input "A", blank, "B", "A" is drawn at y = 30
\* and "B" at y = 50.
C8_Original ==
    (file_exists /\ file_text = TextABlankB /\ pc = "done") =>
        Drawn = << [text |-> <<Run("A", 1)>>, y |-> 30],
                   [text |-> <<Run("B", 1)>>, y |-> 50] >>

\* C8, amended: for the input "A", blank, "B", "A" is drawn at y = 30,
\* the blank line moves the cursor by 10 (from 50 to 60) and draws
\* nothing, and "B" is drawn at y = 60.
C8_ABlankB ==
    (file_exists /\ file_text = TextABlankB) =>
        /\ (pc = "for_line" /\ idx = 1) =>
              y_position = 30 /\ Drawn = <<>>
        /\ (pc = "for_line" /\ idx = 2) =>
              /\ y_position = 50
              /\ Drawn = << [text |-> <<Run("A", 1)>>, y |-> 30] >>
        /\ (pc = "for_line" /\ idx = 3) =>
              /\ y_position = 60
              /\ Drawn = << [text |-> <<Run("A", 1)>>, y |-> 30] >>
        /\ pc = "done" =>
              /\ Len(lines) = 3
              /\ Drawn = << [text |-> <<Run("A", 1)>>, y |-> 30],
                            [text |-> <<Run("B", 1)>>, y |-> 60] >>

C8_Witness ==
    /\ file_exists
    /\ file_text = TextABlankB
    /\ pc = "done"
    /\ Len(Drawn) = 2

\* C9: the cursor starts at 30; in the line loop a step leaves it alone
\* (a skipped sub-line), adds 20 (a drawn one) or adds 10 (a blank line).
C9_CursorMonotone ==
    [][/\ pc = "split" => y_position' = 30
       /\ InLoop =>
            /\ y_position' \in {y_position, y_position + 20, y_position + 10}
            /\ Drawn' # Drawn => y_position' = y_position + 20
            /\ (pc = "for_wrapped" /\ widx' # widx /\ Drawn' = Drawn)
                   => y_position' = y_position]_vars

\* A run with blank lines, drawn sub-lines and skipped sub-lines.
C9_Witness ==
    /\ pc = "done"
    /\ file_exists
    /\ y_position >= DrawLimit
    /\ y_position % 20 = 0
    /\ Len(Drawn) < passed

\* C10: the drawn sub-lines are a prefix of all wrapped sub-lines in input
\* order, no draw follows a skipped sub-line, and each draw is at least 20
\* below the one before.
C10_DrawnPrefix ==
    /\ [](/\ Len(Drawn) <= passed
          /\ \A i \in 2..Len(Drawn) : Drawn[i].y >= Drawn[i - 1].y + 20)
    /\ [](pc = "done" /\ file_exists =>
            LET all == AllWrapped(lines) IN
            /\ passed = Len(all)
            /\ Drawn = [i \in 1..Len(Drawn) |->
                          [text |-> all[i], y |-> Drawn[i].y]])
    /\ [][/\ Len(Drawn) < passed => Drawn' = Drawn
          /\ Drawn' # Drawn =>
               /\ passed' = passed + 1
               /\ Len(Drawn') = Len(Drawn) + 1
               /\ SubSeq(Drawn', 1, Len(Drawn)) = Drawn]_vars

\* A run that drew some sub-lines and dropped the rest.
C10_Witness ==
    /\ pc = "done"
    /\ Len(Drawn) > 0
    /\ Len(Drawn) < passed
    /\ Len(lines) >= 2

\* C2: with the input file present and not empty, every run ends, having
\* saved the 800x1200 canvas to the output path exactly once and returned
\* the path, also when sub-lines were dropped.
C2_SavesOnce ==
    /\ (file_exists /\ file_text # <<>>) ~> (pc = "done")
    /\ [](Len(saved) <= 1)
    /\ [](file_exists /\ file_text # <<>> /\ pc = "done" =>
            /\ saved = <<img>>
            /\ img.size = <<800, 1200>>
            /\ ret = output_path
            /\ stdout = <<CreatedMessage, UploadMessage>>)

\* A run that dropped sub-lines and still saved what it drew.
C2_Witness ==
    /\ pc = "done"
    /\ file_exists
    /\ Len(Drawn) > 0
    /\ Len(Drawn) < passed
    /\ saved = <<img>>
    /\ ret = output_path

====
